---- MODULE Spec2Model ----
(***************************************************************************)
(* Step-level execution tracer (Debugger) over a stack machine runtime.    *)
(* Source: src/evm-adapters/src/sputnik/cheatcodes/debugger.rs             *)
(*                                                                         *)
(* The Debugger records one DebugStep per call of debug_step and then      *)
(* delegates one step to the wrapped runtime; debug_run loops debug_step   *)
(* until the runtime exits.  The runtime itself (sputnik) is an external   *)
(* collaborator: it is modelled here by a small instruction set that       *)
(* exercises every outcome of its step interface (continue, exit, trap).   *)
(***************************************************************************)
EXTENDS Integers, Sequences, FiniteSets, TLC

(* ---------------------------- bounds ----------------------------------- *)
MaxCodeLen == 5
MaxCalls == 2
MaxMemory == 1
MaxShortLen == 3
MaxPrints == 2

(* ------------------------- opcode bytes -------------------------------- *)
STOP == 0
SDIV == 5
MSTORE8 == 83
PUSH1 == 96
PUSH2 == 97
PUSH32 == 127
CALL == 241
INVALID == 254

OpBytes == {STOP, MSTORE8, PUSH1, PUSH2, CALL}

Codes == UNION {[1..n -> OpBytes] : n \in 0..MaxCodeLen}

(* shorter codes over one more byte value, 0x05 *)
ShortCodes == UNION {[1..n -> OpBytes \cup {SDIV}] : n \in 0..MaxShortLen}

(* the short codes whose traces are printed *)
PrintCodes == UNION {[1..n -> {STOP, SDIV, PUSH1, CALL}] : n \in 0..MaxShortLen}

(* --------------------------- values ------------------------------------ *)
None == [some |-> FALSE]
Some(v) == [some |-> TRUE, val |-> v]

PosOk(p) == [tag |-> "Ok", pos |-> p]
PosErr(e) == [tag |-> "Err", exit |-> e]

ROk == [kind |-> "Ok", reason |-> "-"]
RExit(s) == [kind |-> "Exit", reason |-> s]
RTrap == [kind |-> "Trap", reason |-> "-"]

Reverse(s) == [i \in 1..Len(s) |-> s[Len(s) + 1 - i]]

(* Opcode::is_push of the runtime library: Some(1..32) for 0x60..0x7f *)
is_push(op) == IF op >= PUSH1 /\ op <= PUSH32 THEN Some(op - PUSH1 + 1) ELSE None

(* variant: the push size is taken one too small *)
push_size_short(op) == IF is_push(op).some THEN Some(is_push(op).val - 1) ELSE None

(* OpCode::push_size: self.0.is_push() *)
push_size(op) == is_push(op)

(* OpCode::name: the match over the opcode, arm by arm; the byte of each   *)
(* Opcode constant is the one the runtime library gives it                *)
name(op) ==
    CASE op = 0 -> "STOP" [] op = 1 -> "ADD" [] op = 2 -> "MUL" [] op = 3 -> "SUB"
      [] op = 4 -> "DIV" [] op = 5 -> "SDIV" [] op = 6 -> "MOD" [] op = 7 -> "SMOD"
      [] op = 8 -> "ADDMOD" [] op = 9 -> "MULMOD" [] op = 10 -> "EXP"
      [] op = 11 -> "SIGNEXTEND" [] op = 16 -> "LT" [] op = 17 -> "GT"
      [] op = 18 -> "SLT" [] op = 19 -> "SGT" [] op = 20 -> "EQ" [] op = 21 -> "ISZERO"
      [] op = 22 -> "AND" [] op = 23 -> "OR" [] op = 24 -> "XOR" [] op = 25 -> "NOT"
      [] op = 26 -> "BYTE" [] op = 27 -> "SHL" [] op = 28 -> "SHR" [] op = 29 -> "SAR"
      [] op = 32 -> "KECCAK256" [] op = 48 -> "ADDRESS" [] op = 49 -> "BALANCE"
      [] op = 50 -> "ORIGIN" [] op = 51 -> "CALLER" [] op = 52 -> "CALLVALUE"
      [] op = 53 -> "CALLDATALOAD" [] op = 54 -> "CALLDATASIZE"
      [] op = 55 -> "CALLDATACOPY" [] op = 56 -> "CODESIZE" [] op = 57 -> "CODECOPY"
      [] op = 58 -> "GASPRICE" [] op = 59 -> "EXTCODESIZE" [] op = 60 -> "EXTCODECOPY"
      [] op = 61 -> "RETURNDATASIZE" [] op = 62 -> "RETURNDATACOPY"
      [] op = 63 -> "EXTCODEHASH" [] op = 64 -> "BLOCKHASH" [] op = 65 -> "COINBASE"
      [] op = 66 -> "TIMESTAMP" [] op = 67 -> "NUMBER" [] op = 68 -> "DIFFICULTY"
      [] op = 69 -> "GASLIMIT" [] op = 70 -> "CHAINID" [] op = 71 -> "SELFBALANCE"
      [] op = 72 -> "BASEFEE" [] op = 80 -> "POP" [] op = 81 -> "MLOAD"
      [] op = 82 -> "MSTORE" [] op = 83 -> "MSTORE8" [] op = 84 -> "SLOAD"
      [] op = 85 -> "SSTORE" [] op = 86 -> "JUMP" [] op = 87 -> "JUMPI"
      [] op = 88 -> "PC" [] op = 89 -> "MSIZE" [] op = 90 -> "GAS"
      [] op = 91 -> "JUMPDEST" [] op = 96 -> "PUSH1" [] op = 97 -> "PUSH2"
      [] op = 98 -> "PUSH3" [] op = 99 -> "PUSH4" [] op = 100 -> "PUSH5"
      [] op = 101 -> "PUSH6" [] op = 102 -> "PUSH7" [] op = 103 -> "PUSH8"
      [] op = 104 -> "PUSH9" [] op = 105 -> "PUSH10" [] op = 106 -> "PUSH11"
      [] op = 107 -> "PUSH12" [] op = 108 -> "PUSH13" [] op = 109 -> "PUSH14"
      [] op = 110 -> "PUSH15" [] op = 111 -> "PUSH16" [] op = 112 -> "PUSH17"
      [] op = 113 -> "PUSH18" [] op = 114 -> "PUSH19" [] op = 115 -> "PUSH20"
      [] op = 116 -> "PUSH21" [] op = 117 -> "PUSH22" [] op = 118 -> "PUSH23"
      [] op = 119 -> "PUSH24" [] op = 120 -> "PUSH25" [] op = 121 -> "PUSH26"
      [] op = 122 -> "PUSH27" [] op = 123 -> "PUSH28" [] op = 124 -> "PUSH29"
      [] op = 125 -> "PUSH30" [] op = 126 -> "PUSH31" [] op = 127 -> "PUSH32"
      [] op = 128 -> "DUP1" [] op = 129 -> "DUP2" [] op = 130 -> "DUP3"
      [] op = 131 -> "DUP4" [] op = 132 -> "DUP5" [] op = 133 -> "DUP6"
      [] op = 134 -> "DUP7" [] op = 135 -> "DUP8" [] op = 136 -> "DUP9"
      [] op = 137 -> "DUP10" [] op = 138 -> "DUP11" [] op = 139 -> "DUP12"
      [] op = 140 -> "DUP13" [] op = 141 -> "DUP14" [] op = 142 -> "DUP15"
      [] op = 143 -> "DUP16" [] op = 144 -> "SWAP1" [] op = 145 -> "SWAP2"
      [] op = 146 -> "SWAP3" [] op = 147 -> "SWAP4" [] op = 148 -> "SWAP5"
      [] op = 149 -> "SWAP6" [] op = 150 -> "SWAP7" [] op = 151 -> "SWAP8"
      [] op = 152 -> "SWAP9" [] op = 153 -> "SWAP10" [] op = 154 -> "SWAP11"
      [] op = 155 -> "SWAP12" [] op = 156 -> "SWAP13" [] op = 157 -> "SWAP14"
      [] op = 158 -> "SWAP15" [] op = 159 -> "SWAP16" [] op = 160 -> "LOG0"
      [] op = 161 -> "LOG1" [] op = 162 -> "LOG2" [] op = 163 -> "LOG3"
      [] op = 164 -> "LOG4" [] op = 240 -> "CREATE" [] op = 241 -> "CALL"
      [] op = 242 -> "CALLCODE" [] op = 243 -> "RETURN" [] op = 244 -> "DELEGATECALL"
      [] op = 245 -> "CREATE2" [] op = 250 -> "STATICCALL" [] op = 253 -> "REVERT"
      [] op = 254 -> "INVALID" [] op = 255 -> "SELFDESTRUCT" [] OTHER -> "UNDEFINED"

(* one lowercase hexadecimal digit, as {:x} writes it *)
HexDigit(d) ==
    CASE d = 0 -> "0" [] d = 1 -> "1" [] d = 2 -> "2" [] d = 3 -> "3" [] d = 4 -> "4"
      [] d = 5 -> "5" [] d = 6 -> "6" [] d = 7 -> "7" [] d = 8 -> "8" [] d = 9 -> "9"
      [] d = 10 -> "a" [] d = 11 -> "b" [] d = 12 -> "c" [] d = 13 -> "d"
      [] d = 14 -> "e" [] d = 15 -> "f"

(* {:02x} of a u8 *)
Hex02(b) == HexDigit(b \div 16) \o HexDigit(b % 16)

(* variant: {:x}, without the zero padding *)
display_unpadded(op) ==
    IF name(op) = "UNDEFINED"
    THEN "UNDEFINED(0x" \o (IF op < 16 THEN HexDigit(op) ELSE Hex02(op)) \o ")"
    ELSE name(op)

(* impl Display for OpCode *)
display(op) ==
    IF name(op) = "UNDEFINED"
    THEN "UNDEFINED(0x" \o Hex02(op) \o ")"
    ELSE name(op)

(* ------------------- the runtime (external engine) --------------------- *)
(* Machine::position() *)
machine_position(position) == position

(* Machine::inspect(): the opcode at the position and the stack, when the  *)
(* position is valid and inside the code                                   *)
machine_inspect(position, stack, code) ==
    IF position.tag = "Ok" /\ position.pos < Len(code)
    THEN Some([op |-> code[position.pos + 1], stack |-> stack])
    ELSE None

(* the literal pushed by PUSHn at pos: the bytes that exist, zero padded   *)
PushWord(code, pos, n) ==
    LET byteAt(i) == IF pos + i <= Len(code) - 1 THEN code[pos + i + 1] ELSE 0
        F[i \in 0..n] == IF i = 0 THEN 0 ELSE F[i - 1] * 256 + byteAt(i)
    IN F[n]

MemSet(memory, offset, byte) ==
    [i \in 1..(IF offset + 1 > Len(memory) THEN offset + 1 ELSE Len(memory)) |->
        IF i = offset + 1 THEN byte
        ELSE IF i <= Len(memory) THEN memory[i] ELSE 0]

EngineResult(position, stack, memory, out, ran) ==
    [position |-> position, stack |-> stack, memory |-> memory, out |-> out, ran |-> ran]

(* Runtime::step: the set of results the engine can produce from a state.  *)
(* ran: whether an instruction was evaluated by this advance.              *)
RuntimeStep(position, stack, memory, code) ==
    IF position.tag = "Err"
    THEN {EngineResult(position, stack, memory, RExit(position.exit), FALSE)}
    ELSE IF position.pos >= Len(code)
    THEN {EngineResult(PosErr("Stopped"), stack, memory, RExit("Stopped"), FALSE)}
    ELSE LET pos == position.pos
             op == code[pos + 1]
             n == Len(stack)
         IN CASE op = STOP ->
                   {EngineResult(PosErr("Stopped"), stack, memory, RExit("Stopped"), TRUE)}
              [] push_size(op).some ->
                   {EngineResult(PosOk(pos + 1 + push_size(op).val),
                                 Append(stack, PushWord(code, pos, push_size(op).val)),
                                 memory, ROk, TRUE)}
              [] op = MSTORE8 ->
                   IF n < 2
                   THEN {EngineResult(PosErr("StackUnderflow"), stack, memory,
                                      RExit("StackUnderflow"), TRUE)}
                   ELSE IF stack[n] >= MaxMemory
                   THEN {EngineResult(PosErr("NotSupported"), SubSeq(stack, 1, n - 2), memory,
                                      RExit("NotSupported"), TRUE)}
                   ELSE {EngineResult(PosOk(pos + 1), SubSeq(stack, 1, n - 2),
                                      MemSet(memory, stack[n], stack[n - 1] % 256), ROk, TRUE)}
              [] op = SDIV ->
                   IF n < 2
                   THEN {EngineResult(PosErr("StackUnderflow"), stack, memory,
                                      RExit("StackUnderflow"), TRUE)}
                   ELSE {EngineResult(PosOk(pos + 1),
                                      Append(SubSeq(stack, 1, n - 2),
                                             IF stack[n - 1] = 0 THEN 0
                                             ELSE stack[n] \div stack[n - 1]),
                                      memory, ROk, TRUE)}
              [] op = CALL ->
                   {EngineResult(PosOk(pos + 1), Append(stack, 1), memory, ROk, TRUE),
                    EngineResult(PosOk(pos + 1), stack, memory, RTrap, TRUE)}
              [] OTHER ->
                   {EngineResult(PosErr("InvalidCode"), stack, memory,
                                 RExit("InvalidCode"), TRUE)}

(* --------------------------- the Debugger ------------------------------ *)
(* debug_step: pc = position if the machine reports one, else 0 *)
step_pc(position) ==
    IF machine_position(position).tag = "Ok" THEN machine_position(position).pos ELSE 0

(* debug_step: the bounds test on the operand window *)
push_end_ok(push_end, code) == push_end < Len(code)

(* variant: the window is cut at the end of the code instead of failing *)
push_window_clamped(code, pcv, n) ==
    LET push_start == pcv + 1
        push_end == IF pcv + 1 + n < Len(code) THEN pcv + 1 + n ELSE Len(code)
    IN [panic |-> FALSE, bytes |-> SubSeq(code, push_start + 1, push_end)]

(* variant: the window starts at the opcode instead of after it *)
push_window_shifted(code, pcv, n) ==
    LET push_start == pcv
        push_end == pcv + n
    IN IF push_end_ok(pcv + 1 + n, code)
       THEN [panic |-> FALSE, bytes |-> SubSeq(code, push_start + 1, push_end)]
       ELSE [panic |-> TRUE]

(* debug_step: the operand window of a push, or the panic *)
push_window(code, pcv, n) ==
    LET push_start == pcv + 1
        push_end == pcv + 1 + n
    IN IF push_end_ok(push_end, code)
       THEN [panic |-> FALSE, bytes |-> SubSeq(code, push_start + 1, push_end)]
       ELSE [panic |-> TRUE]

(* debug_step: stack.data().clone() then reverse(), decodable branch *)
inspect_stack(stk) == Reverse(stk)

(* variant: the fallback branch forgets the reverse() *)
fallback_stack_raw(stk) == stk

(* debug_step: stack().data().clone() then reverse(), fallback branch *)
fallback_stack(stk) == Reverse(stk)

DebugStep(pcv, stk, mem, op, push_bytes) ==
    [pc |-> pcv, stack |-> stk, memory |-> mem, op |-> op, push_bytes |-> push_bytes]

(* variant: the inspected instruction is unwrapped, so a state with no     *)
(* decodable instruction ends the call                                    *)
debug_step_record_unwrap(position, stack, memory, code) ==
    LET pcv == step_pc(position)
        insp == machine_inspect(position, stack, code)
    IN IF insp.some
       THEN LET op == insp.val.op
                ps == push_size(op)
                win == IF ps.some THEN push_window(code, pcv, ps.val) ELSE [panic |-> FALSE]
            IN IF win.panic
               THEN [panic |-> TRUE, step |-> None]
               ELSE [panic |-> FALSE,
                     step |-> Some(DebugStep(pcv, inspect_stack(insp.val.stack), memory, op,
                                             IF ps.some THEN Some(win.bytes) ELSE None))]
       ELSE [panic |-> TRUE, step |-> None]

(* variant: the step is built and pushed before the operand window is     *)
(* tested, so the step of a failing push is in the trace                  *)
debug_step_record_eager(position, stack, memory, code) ==
    LET pcv == step_pc(position)
        insp == machine_inspect(position, stack, code)
    IN IF insp.some
       THEN LET op == insp.val.op
                ps == push_size(op)
                win == IF ps.some THEN push_window(code, pcv, ps.val) ELSE [panic |-> FALSE]
            IN [panic |-> win.panic,
                step |-> Some(DebugStep(pcv, inspect_stack(insp.val.stack), memory, op,
                                        IF ps.some /\ ~win.panic THEN Some(win.bytes)
                                        ELSE None))]
       ELSE [panic |-> FALSE,
             step |-> Some(DebugStep(pcv, fallback_stack(stack), memory, INVALID, None))]

(* debug_step up to the construction of the step: the step that reaches   *)
(* self.steps.push, or the panic that ends the call before it             *)
debug_step_record(position, stack, memory, code) ==
    LET pcv == step_pc(position)
        insp == machine_inspect(position, stack, code)
    IN IF insp.some
       THEN LET op == insp.val.op
                ps == push_size(op)
                win == IF ps.some THEN push_window(code, pcv, ps.val) ELSE [panic |-> FALSE]
            IN IF win.panic
               THEN [panic |-> TRUE, step |-> None]
               ELSE [panic |-> FALSE,
                     step |-> Some(DebugStep(pcv, inspect_stack(insp.val.stack), memory, op,
                                             IF ps.some THEN Some(win.bytes) ELSE None))]
       ELSE [panic |-> FALSE,
             step |-> Some(DebugStep(pcv, fallback_stack(stack), memory, INVALID, None))]

(* variant: the step is inserted at the front of the trace *)
steps_push_front(stepsv, step) == <<step>> \o stepsv

(* variant: a step taken where nothing is decodable is not recorded *)
steps_push_decoded(stepsv, step) == IF step.op = INVALID THEN stepsv ELSE Append(stepsv, step)

(* debug_step: self.steps.push(step) *)
steps_push(stepsv, step) == Append(stepsv, step)

(* ForgeRuntime::step: self.inner.step(handler) *)
forge_step(position, stack, memory, code) == RuntimeStep(position, stack, memory, code)

(* ForgeRuntime::run: the match on the result of step *)
forge_run_match(rv, donev, resv) ==
    IF rv.kind = "Ok" THEN [panic |-> FALSE, done |-> donev, res |-> resv]
    ELSE IF rv.kind = "Exit" THEN [panic |-> FALSE, done |-> TRUE, res |-> rv.reason]
    ELSE [panic |-> TRUE, done |-> donev, res |-> resv]

(* variant: the runtime is stepped once more after a step that continues *)
debug_step_advance_twice(position, stack, memory, code) ==
    UNION {IF e.out.kind = "Ok"
           THEN RuntimeStep(e.position, e.stack, e.memory, code)
           ELSE {e} : e \in RuntimeStep(position, stack, memory, code)}

(* debug_step: the delegated self.runtime.inner.step(handler) *)
debug_step_advance(position, stack, memory, code) == RuntimeStep(position, stack, memory, code)

(* variant: the value of the delegated step is dropped *)
debug_step_return_ok(out) == ROk

(* debug_step: its value is the value of the delegated step *)
debug_step_return(out) == out

(* variant: an exit ends the loop but its status is not stored *)
run_match_keep(rv, donev, resv) ==
    IF rv.kind = "Ok" THEN [panic |-> FALSE, done |-> donev, res |-> resv]
    ELSE IF rv.kind = "Exit" THEN [panic |-> FALSE, done |-> TRUE, res |-> resv]
    ELSE [panic |-> TRUE, done |-> donev, res |-> resv]

(* variant: a trap is taken for a continue *)
run_match_trap_continue(rv, donev, resv) ==
    IF rv.kind = "Exit" THEN [panic |-> FALSE, done |-> TRUE, res |-> rv.reason]
    ELSE [panic |-> FALSE, done |-> donev, res |-> resv]

(* variant: an exit stores its status but does not end the loop *)
run_match_loop(rv, donev, resv) ==
    IF rv.kind = "Ok" THEN [panic |-> FALSE, done |-> donev, res |-> resv]
    ELSE IF rv.kind = "Exit" THEN [panic |-> FALSE, done |-> donev, res |-> rv.reason]
    ELSE [panic |-> TRUE, done |-> donev, res |-> resv]

(* debug_run: the match on the result of debug_step *)
run_match(rv, donev, resv) ==
    IF rv.kind = "Ok" THEN [panic |-> FALSE, done |-> donev, res |-> resv]
    ELSE IF rv.kind = "Exit" THEN [panic |-> FALSE, done |-> TRUE, res |-> rv.reason]
    ELSE [panic |-> TRUE, done |-> donev, res |-> resv]

(* ------------------------------ text ----------------------------------- *)
RECURSIVE Zeros(_)
(* k digits 0 *)
Zeros(k) ==
    IF k = 0 THEN ""
    ELSE IF k % 2 = 0 THEN LET h == Zeros(k \div 2) IN h \o h
    ELSE "0" \o Zeros(k - 1)

RECURSIVE HexN(_, _)
(* the k lowest hexadecimal digits of v, most significant first *)
HexN(v, k) ==
    IF k = 0 THEN ""
    ELSE IF v = 0 THEN Zeros(k)
    ELSE HexN(v \div 16, k - 1) \o HexDigit(v % 16)

(* {:#x} of an H256: 0x and the 32 bytes, big endian *)
H256Debug(w) == "0x" \o HexN(w, 64)

(* hex::encode of a byte sequence *)
hex_encode(bytes) ==
    LET F[i \in 0..Len(bytes)] == IF i = 0 THEN "" ELSE F[i - 1] \o Hex02(bytes[i])
    IN F[Len(bytes)]

(* {:#?} of a Vec<H256>: one element per line, indented, or [] *)
VecPretty(v) ==
    LET F[i \in 0..Len(v)] ==
            IF i = 0 THEN "[\n" ELSE F[i - 1] \o "    " \o H256Debug(v[i]) \o ",\n"
    IN IF Len(v) = 0 THEN "[]" ELSE F[Len(v)] \o "]"

(* impl Display for DebugStep *)
step_fmt(step) ==
    IF step.push_bytes.some
    THEN "pc: " \o ToString(step.pc) \o "\nop: " \o display(step.op)
         \o "(0x" \o hex_encode(step.push_bytes.val) \o ")\nstack: " \o VecPretty(step.stack)
         \o "\nmemory: 0x" \o hex_encode(step.memory) \o "\n\n"
    ELSE "pc: " \o ToString(step.pc) \o "\nop: " \o display(step.op)
         \o "\nstack: " \o VecPretty(step.stack)
         \o "\nmemory: 0x" \o hex_encode(step.memory) \o "\n\n"

(* variant: the steps are written last first *)
print_steps_rev(stepsv) ==
    LET F[i \in 0..Len(stepsv)] ==
            IF i = 0 THEN "" ELSE F[i - 1] \o step_fmt(stepsv[Len(stepsv) + 1 - i]) \o "\n"
    IN F[Len(stepsv)]

(* print_steps: println!("{}", step) for each step in turn; the text written *)
print_steps(stepsv) ==
    LET F[i \in 0..Len(stepsv)] ==
            IF i = 0 THEN "" ELSE F[i - 1] \o step_fmt(stepsv[i]) \o "\n"
    IN F[Len(stepsv)]

(* ------------------------------ state ---------------------------------- *)
VARIABLES
    code,       \* ForgeRuntime.code
    position,   \* runtime.inner.machine().position()
    stack,      \* runtime.inner.machine().stack().data(), bottom first
    memory,     \* runtime.inner.machine().memory().data()
    steps,      \* Debugger.steps
    pc,         \* where the caller / debug_run / debug_step is
    inRun,      \* debug_step was called from debug_run
    done,       \* debug_run: done
    res,        \* debug_run: res
    r,          \* result of the last debug_step
    fatal,      \* which panic ended the call, if any
    ret,        \* what the last debug_run returned to its caller
    calls,      \* calls the caller has made on the Debugger
    advances,   \* history: number of runtime steps made
    executed,   \* history: number of instructions the runtime evaluated
    hist,       \* history: runtime state before each runtime step
    lastOut,    \* history: outcome of the last runtime step
    runStart,   \* history: number of runtime steps made when debug_run was called
    entry,      \* history: state at entry of the last debug_step
    opIn,       \* an OpCode value handed to name / push_size / Display
    opOut,      \* what they gave for it
    stdout,     \* the text print_steps has written
    printed,    \* history: the trace and the text of each print_steps call
    plain       \* a ForgeRuntime::run over a runtime of its own, same code

vars == <<code, position, stack, memory, steps, pc, inRun, done, res, r, fatal, ret,
          calls, advances, executed, hist, lastOut, runStart, entry,
          opIn, opOut, stdout, printed, plain>>

debuggerVars == <<steps, pc, inRun, done, res, r, fatal, ret, calls, advances, executed,
                  hist, lastOut, runStart, entry>>

auxVars == <<opIn, opOut, stdout, printed, plain>>

engineVars == <<position, stack, memory>>

EngineState == [position |-> position, stack |-> stack, memory |-> memory]

EngineOf(x) == [position |-> x.position, stack |-> x.stack, memory |-> x.memory]

DefaultRes == "Returned"

PlainInit ==
    [pc |-> "idle", position |-> PosOk(0), stack |-> <<>>, memory |-> <<>>,
     done |-> FALSE, res |-> DefaultRes, r |-> ROk, hist |-> <<>>]

InitRest ==
    /\ position = PosOk(0)
    /\ stack = <<>>
    /\ memory = <<>>
    /\ steps = <<>>
    /\ pc = "idle"
    /\ inRun = FALSE
    /\ done = FALSE
    /\ res = DefaultRes
    /\ r = ROk
    /\ fatal = "None"
    /\ ret = None
    /\ calls = 0
    /\ advances = 0
    /\ executed = 0
    /\ hist = <<>>
    /\ lastOut = ROk
    /\ runStart = 0
    /\ entry = None
    /\ opOut = None
    /\ stdout = ""
    /\ printed = <<>>
    /\ plain = PlainInit

Init == code \in Codes /\ opIn = 0 /\ InitRest

InitShort == code \in ShortCodes /\ opIn = 0 /\ InitRest

(* every value an OpCode can wrap, before name / push_size / Display are used *)
InitPrint == code \in PrintCodes /\ opIn = 0 /\ InitRest

InitOpcode == code = <<>> /\ opIn \in 0..255 /\ InitRest

(* the caller calls debug_run: lines 160-161 *)
DebugRunCall ==
    /\ pc \in {"idle", "returned"}
    /\ calls < MaxCalls
    /\ calls' = calls + 1
    /\ pc' = "run_loop"
    /\ inRun' = TRUE
    /\ done' = FALSE
    /\ res' = DefaultRes
    /\ runStart' = advances
    /\ UNCHANGED <<code, engineVars, steps, r, fatal, ret, advances, executed, hist,
                   lastOut, entry>>
    /\ UNCHANGED auxVars

(* debug_step from its entry to self.steps.push(step), called by debug_run *)
(* (while !done) or directly by the caller                                 *)
DebugStepCapture ==
    /\ \/ /\ pc \in {"idle", "returned"}
          /\ calls < MaxCalls
          /\ calls' = calls + 1
          /\ inRun' = FALSE
       \/ /\ pc = "run_loop"
          /\ ~done
          /\ UNCHANGED <<calls, inRun>>
    /\ LET rec == debug_step_record(position, stack, memory, code)
       IN /\ steps' = IF rec.step.some THEN steps_push(steps, rec.step.val) ELSE steps
          /\ IF rec.panic
             THEN pc' = "panicked" /\ fatal' = "OperandOverrun"
             ELSE pc' = "step_advance" /\ UNCHANGED fatal
    /\ entry' = Some([position |-> position, stack |-> stack, memory |-> memory,
                      steps |-> steps, advances |-> advances])
    /\ UNCHANGED <<code, engineVars, done, res, r, ret, advances, executed, hist,
                   lastOut, runStart>>
    /\ UNCHANGED auxVars

(* debug_step: the delegated runtime step and the return *)
DebugStepAdvance ==
    /\ pc = "step_advance"
    /\ \E e \in debug_step_advance(position, stack, memory, code) :
          /\ position' = e.position
          /\ stack' = e.stack
          /\ memory' = e.memory
          /\ r' = debug_step_return(e.out)
          /\ lastOut' = e.out
          /\ executed' = executed + (IF e.ran THEN 1 ELSE 0)
    /\ advances' = advances + 1
    /\ hist' = Append(hist, EngineState)
    /\ pc' = IF inRun THEN "run_match" ELSE "idle"
    /\ UNCHANGED <<code, steps, inRun, done, res, fatal, ret, calls, runStart, entry>>
    /\ UNCHANGED auxVars

(* debug_run: match r *)
DebugRunMatch ==
    /\ pc = "run_match"
    /\ LET m == run_match(r, done, res)
       IN /\ done' = m.done
          /\ res' = m.res
          /\ IF m.panic
             THEN pc' = "panicked" /\ fatal' = "UnsupportedSuspend"
             ELSE pc' = "run_loop" /\ UNCHANGED fatal
    /\ UNCHANGED <<code, engineVars, steps, inRun, r, ret, calls, advances, executed,
                   hist, lastOut, runStart, entry>>
    /\ UNCHANGED auxVars

(* debug_run: the loop ends and res is returned *)
DebugRunReturn ==
    /\ pc = "run_loop"
    /\ done
    /\ pc' = "returned"
    /\ ret' = Some(res)
    /\ inRun' = FALSE
    /\ UNCHANGED <<code, engineVars, steps, done, res, r, fatal, calls, advances,
                   executed, hist, lastOut, runStart, entry>>
    /\ UNCHANGED auxVars

Next ==
    \/ DebugRunCall
    \/ DebugStepCapture
    \/ DebugStepAdvance
    \/ DebugRunMatch
    \/ DebugRunReturn

Spec == Init /\ [][Next]_vars

(* the caller calls print_steps on the Debugger *)
PrintSteps ==
    /\ pc \in {"idle", "returned"}
    /\ Len(printed) < MaxPrints
    /\ stdout' = stdout \o print_steps(steps)
    /\ printed' = Append(printed, [trace |-> steps, text |-> print_steps(steps)])
    /\ UNCHANGED <<code, engineVars, debuggerVars, opIn, opOut, plain>>

NextPrint == Next \/ PrintSteps

SpecPrint == InitPrint /\ [][NextPrint]_vars

(* ForgeRuntime::run is called on a runtime of its own: lines 76-77 *)
RunCall ==
    /\ plain.pc = "idle"
    /\ plain' = [plain EXCEPT !.pc = "loop", !.done = FALSE, !.res = DefaultRes]
    /\ UNCHANGED <<code, engineVars, debuggerVars, opIn, opOut, stdout, printed>>

(* ForgeRuntime::run: one turn of the loop, self.step and the match on r *)
RunIterate ==
    /\ plain.pc = "loop"
    /\ ~plain.done
    /\ \E e \in forge_step(plain.position, plain.stack, plain.memory, code) :
          LET m == forge_run_match(e.out, plain.done, plain.res)
          IN plain' = [pc |-> IF m.panic THEN "panicked" ELSE "loop",
                       position |-> e.position, stack |-> e.stack, memory |-> e.memory,
                       done |-> m.done, res |-> m.res, r |-> e.out,
                       hist |-> Append(plain.hist, EngineOf(plain))]
    /\ UNCHANGED <<code, engineVars, debuggerVars, opIn, opOut, stdout, printed>>

(* ForgeRuntime::run: the loop ends and res is returned *)
RunReturn ==
    /\ plain.pc = "loop"
    /\ plain.done
    /\ plain' = [plain EXCEPT !.pc = "returned"]
    /\ UNCHANGED <<code, engineVars, debuggerVars, opIn, opOut, stdout, printed>>

NextBoth == Next \/ RunCall \/ RunIterate \/ RunReturn

SpecBoth == InitShort /\ [][NextBoth]_vars

(* OpCode(opIn): its name, its push size and its Display text are taken *)
OpCodeShow ==
    /\ opOut = None
    /\ opOut' = Some([name |-> name(opIn), push_size |-> push_size(opIn),
                      display |-> display(opIn)])
    /\ UNCHANGED <<code, engineVars, debuggerVars, opIn, stdout, printed, plain>>

NextOpcode == OpCodeShow

SpecOpcode == InitOpcode /\ [][NextOpcode]_vars

SpecShort == InitShort /\ [][Next]_vars

(* a call that has started goes on: debug_run and debug_step are sequential *)
(* code on one thread, nothing in them waits                                *)
RunProgress == pc \notin {"idle", "returned", "panicked"} /\ Next

SpecLive == InitShort /\ [][Next]_vars /\ WF_vars(RunProgress)

(* ============================ properties =============================== *)
(* the record a runtime state e is expected to leave in the trace *)
StepOf(s, e) ==
    /\ s.pc = (IF e.position.tag = "Ok" THEN e.position.pos ELSE 0)
    /\ Len(s.stack) = Len(e.stack)
    /\ \A j \in 1..Len(e.stack) : s.stack[j] = e.stack[Len(e.stack) + 1 - j]
    /\ s.memory = e.memory

(* the last debug_step was entered on a decodable push opcode *)
EntryPush ==
    /\ entry.some
    /\ entry.val.position.tag = "Ok"
    /\ entry.val.position.pos < Len(code)
    /\ code[entry.val.position.pos + 1] \in PUSH1..PUSH32

EntryPos == entry.val.position.pos
EntryN == code[EntryPos + 1] - PUSH1 + 1
EntryLen == Len(entry.val.steps)

(* C1 (as claimed): a debug_step entered on a push whose operand window    *)
(* [pc+1, pc+1+n) lies inside the code, pc+1+n <= len(code), does not fail *)
(* and appends a step whose push_bytes is code[pc+1 .. pc+1+n).            *)
C1Claim ==
    (EntryPush /\ EntryPos + 1 + EntryN <= Len(code)) =>
        /\ fatal # "OperandOverrun"
        /\ Len(steps) > EntryLen
        /\ steps[EntryLen + 1].push_bytes = Some(SubSeq(code, EntryPos + 2, EntryPos + 1 + EntryN))

(* C2: a debug_step entered on a push with pc+1+n > len(code) panics: no   *)
(* step is appended, the runtime is not stepped, the earlier steps are     *)
(* unchanged, and nothing changes after the panic.                         *)
C2Fault ==
    (EntryPush /\ EntryPos + 1 + EntryN > Len(code)) =>
        /\ pc = "panicked"
        /\ fatal = "OperandOverrun"
        /\ steps = entry.val.steps
        /\ EngineState = EngineOf(entry.val)
        /\ advances = entry.val.advances
        /\ Len(hist) = advances

C2Theorem ==
    /\ []C2Fault
    /\ [][fatal = "OperandOverrun" => UNCHANGED <<steps, position, stack, memory, advances>>]_vars

C2Witness ==
    /\ fatal = "OperandOverrun"
    /\ EntryPos + 1 + EntryN > Len(code)
    /\ Len(steps) >= 2

(* C3 (as claimed): when debug_run has returned, the length of the trace   *)
(* is the number of instructions the runtime evaluated.                    *)
C3Claim == pc = "returned" => Len(steps) = executed

(* C3 (amended): when debug_run has returned, the length of the trace is   *)
(* the number of runtime steps made through the Debugger; it exceeds the   *)
(* number of evaluated instructions by the steps made where nothing was    *)
(* decodable, each of which is in the trace as an INVALID step.            *)
Undecodable == {i \in 1..Len(hist) : ~machine_inspect(hist[i].position, hist[i].stack, code).some}

C3Theorem ==
    pc = "returned" =>
        /\ Len(steps) = advances
        /\ Len(steps) = executed + Cardinality(Undecodable)
        /\ \A i \in Undecodable : steps[i].op = INVALID

C3Witness ==
    /\ pc = "returned"
    /\ Len(steps) >= 3
    /\ executed < Len(steps)

(* C4: steps[i] is the snapshot (pc, stack, memory) of the runtime state   *)
(* right before the i-th runtime step, in that order; the trace grows only *)
(* at its end and a recorded step never changes.                           *)
C4Snapshots ==
    /\ Len(hist) = advances
    /\ Len(steps) = advances + (IF pc = "step_advance" THEN 1 ELSE 0)
    /\ \A i \in 1..Len(steps) :
          StepOf(steps[i], IF i <= Len(hist) THEN hist[i] ELSE EngineState)

C4Theorem ==
    /\ []C4Snapshots
    /\ [][Len(steps') >= Len(steps) /\ SubSeq(steps', 1, Len(steps)) = steps]_vars

C4Witness ==
    /\ Len(steps) >= 4
    /\ advances >= 4
    /\ steps[1].stack # steps[2].stack
    /\ steps[2].stack # steps[3].stack
    /\ steps[3].memory # steps[4].memory

(* C5: debug_run goes on while debug_step returns Ok and, at the first     *)
(* exit, stops and returns exactly the status of that exit, with the step  *)
(* of the terminating instruction already in the trace.                    *)
C5Theorem ==
    /\ (pc = "run_loop" /\ ~done) => (advances = runStart \/ lastOut.kind = "Ok")
    /\ (pc = "run_loop" /\ done) =>
          (advances > runStart /\ lastOut.kind = "Exit" /\ res = lastOut.reason)
    /\ pc = "returned" =>
          /\ advances > runStart
          /\ lastOut.kind = "Exit"
          /\ ret = Some(lastOut.reason)
          /\ Len(steps) = advances
          /\ StepOf(steps[Len(steps)], hist[advances])
          /\ \A i \in (runStart + 1)..(advances - 1) :
                machine_inspect(hist[i].position, hist[i].stack, code).some

C5Witness ==
    /\ pc = "returned"
    /\ ret.val = "StackUnderflow"
    /\ advances - runStart >= 2

(* C6: debug_step leaves the runtime and the code as they are up to the    *)
(* delegated step; a call that does not panic appends exactly one step,    *)
(* makes exactly one runtime step, from the state at entry, and returns    *)
(* the outcome of that step unchanged.                                     *)
C6Frame ==
    /\ pc = "step_advance" =>
          /\ EngineState = EngineOf(entry.val)
          /\ advances = entry.val.advances
          /\ Len(steps) = EntryLen + 1
          /\ SubSeq(steps, 1, EntryLen) = entry.val.steps
    /\ (entry.some /\ pc # "step_advance" /\ fatal # "OperandOverrun") =>
          /\ Len(steps) = EntryLen + 1
          /\ advances = entry.val.advances + 1
          /\ hist[advances] = EngineOf(entry.val)
          /\ r = lastOut

C6Theorem ==
    /\ []C6Frame
    /\ [][code' = code]_vars

C6Witness ==
    /\ pc = "idle"
    /\ entry.some
    /\ r.kind = "Exit"
    /\ Len(steps) >= 2
    /\ EngineState # EngineOf(entry.val)

C8Theorem ==
    \A i \in 1..Len(steps) :
        /\ steps[i].push_bytes.some <=> steps[i].op \in PUSH1..PUSH32
        /\ steps[i].push_bytes.some => Len(steps[i].push_bytes.val) = steps[i].op - PUSH1 + 1
        /\ steps[i].op = INVALID => steps[i].push_bytes = None

C8Witness ==
    /\ Len(steps) >= 3
    /\ steps[1].op = PUSH2
    /\ Len(steps[1].push_bytes.val) = 2
    /\ steps[2].op = STOP
    /\ steps[3].op = INVALID

(* C9: in every recorded step, decodable or not, the recorded stack is the *)
(* runtime's bottom-first stack reversed once: same length, index 0 the    *)
(* top; the runtime's own stack keeps its order.                           *)
C9Theorem ==
    /\ \A i \in 1..Len(steps) :
          LET raw == IF i <= Len(hist) THEN hist[i].stack ELSE stack
          IN /\ Len(steps[i].stack) = Len(raw)
             /\ \A j \in 1..Len(raw) : steps[i].stack[j] = raw[Len(raw) + 1 - j]
    /\ pc = "step_advance" => stack = entry.val.stack

C9Witness ==
    \E i \in 1..Len(steps) : \E k \in 1..Len(steps) :
        /\ steps[i].op = INVALID
        /\ steps[k].op # INVALID
        /\ Len(steps[i].stack) >= 2
        /\ Len(steps[k].stack) >= 2
        /\ steps[i].stack[1] # steps[i].stack[2]
        /\ steps[k].stack[1] # steps[k].stack[2]
        /\ i <= Len(hist)
        /\ steps[i].stack[1] = hist[i].stack[Len(hist[i].stack)]

(* C10: a trap returned by the delegated step inside debug_run panics:     *)
(* debug_run neither loops on nor returns, and no further step is taken.   *)
TrapInRun == inRun /\ advances > runStart /\ lastOut.kind = "Trap" /\ pc # "run_match"

C10Fault ==
    TrapInRun =>
        /\ pc = "panicked"
        /\ fatal = "UnsupportedSuspend"
        /\ Len(steps) = advances
        /\ Len(hist) = advances

C10Theorem ==
    /\ []C10Fault
    /\ [][(pc = "run_match" /\ r.kind = "Trap") =>
            (pc' = "panicked" /\ ret' = ret /\ steps' = steps)]_vars
    /\ [][fatal = "UnsupportedSuspend" => UNCHANGED <<steps, ret, advances, pc>>]_vars

C10Witness ==
    /\ fatal = "UnsupportedSuspend"
    /\ lastOut.kind = "Trap"
    /\ Len(steps) >= 2

(* C11: running the code [0x60, 0x05, 0x00] from an empty stack and empty  *)
(* memory with debug_run gives a trace of exactly two steps, PUSH1 at 0    *)
(* with push_bytes [0x05] and an empty stack, then STOP at 2 with no       *)
(* push_bytes and the stack [0x05]; the run returns a success exit.        *)
EndToEndRun == code = <<96, 5, 0>> /\ calls = 1 /\ pc = "returned"

ExitSucceed == {"Stopped", "Returned", "Suicided"}

C11Theorem ==
    /\ code = <<96, 5, 0>> /\ calls = 1 /\ inRun => pc # "panicked"
    /\ EndToEndRun =>
          /\ Len(steps) = 2
          /\ steps[1].pc = 0
          /\ name(steps[1].op) = "PUSH1"
          /\ steps[1].push_bytes = Some(<<5>>)
          /\ steps[1].stack = <<>>
          /\ steps[1].memory = <<>>
          /\ steps[2].pc = 2
          /\ name(steps[2].op) = "STOP"
          /\ steps[2].push_bytes = None
          /\ steps[2].stack = <<5>>
          /\ steps[2].memory = <<>>
          /\ ret.some
          /\ ret.val \in ExitSucceed

C11Witness == EndToEndRun /\ ret = Some("Stopped") /\ Len(steps) = 2

(* C12: name and Display are defined for all 256 byte values; Display is   *)
(* the mnemonic when the name table has one for the byte (0x01 ADD, 0xfe   *)
(* INVALID) and otherwise "UNDEFINED(0x" + two lowercase hex digits + ")"  *)
(* (0x0c gives "UNDEFINED(0x0c)"), never the bare "UNDEFINED".             *)
HexChars == <<"0", "1", "2", "3", "4", "5", "6", "7", "8", "9", "a", "b", "c", "d", "e", "f">>

C12Theorem ==
    opOut.some =>
        LET o == opOut.val
        IN /\ o.display # "UNDEFINED"
           /\ o.name # "UNDEFINED" => o.display = o.name
           /\ o.name = "UNDEFINED" =>
                 o.display = "UNDEFINED(0x" \o HexChars[(opIn \div 16) + 1]
                                 \o HexChars[(opIn % 16) + 1] \o ")"
           /\ opIn = 0 => o.name = "STOP"
           /\ opIn = 1 => o.display = "ADD"
           /\ opIn = 12 => (o.name = "UNDEFINED" /\ o.display = "UNDEFINED(0x0c)")
           /\ opIn = 32 => o.display = "KECCAK256"
           /\ opIn = 239 => o.display = "UNDEFINED(0xef)"
           /\ opIn = 254 => o.display = "INVALID"
           /\ opIn = 255 => o.display = "SELFDESTRUCT"

C12Witness == opOut.some /\ opIn = 12 /\ opOut.val.display = "UNDEFINED(0x0c)"

(* C13: push_size gives n in 1..32 exactly for the bytes 0x60..0x7f, with  *)
(* n = byte - 0x5f, and nothing for any other byte; it agrees with the     *)
(* name table: push_size = n exactly when the name is "PUSH" followed by n.*)
Decimal == <<"1", "2", "3", "4", "5", "6", "7", "8", "9", "10", "11", "12", "13", "14", "15",
             "16", "17", "18", "19", "20", "21", "22", "23", "24", "25", "26", "27", "28",
             "29", "30", "31", "32">>

C13Theorem ==
    opOut.some =>
        LET o == opOut.val
        IN /\ o.push_size.some <=> opIn \in 96..127
           /\ o.push_size.some => (o.push_size.val = opIn - 95 /\ o.push_size.val \in 1..32)
           /\ \A n \in 1..32 :
                 (o.push_size = Some(n)) <=> (o.name = "PUSH" \o Decimal[n])

C13Witness == opOut.some /\ opIn = 127 /\ opOut.val.push_size = Some(32) /\ opOut.val.name = "PUSH32"

(* C14: print_steps writes the Display text of every recorded step, first  *)
(* step first, as a function of the trace alone: it leaves the trace, the  *)
(* runtime and the code as they are, and two calls on the same trace write *)
(* the same text.                                                          *)
RECURSIVE TextOf(_)
TextOf(t) == IF t = <<>> THEN "" ELSE step_fmt(Head(t)) \o "\n" \o TextOf(Tail(t))

RECURSIVE AllText(_)
AllText(ps) == IF ps = <<>> THEN "" ELSE ps[1].text \o AllText(Tail(ps))

C14Printed ==
    /\ \A k \in 1..Len(printed) : printed[k].text = TextOf(printed[k].trace)
    /\ \A a \in 1..Len(printed) : \A b \in 1..Len(printed) :
          printed[a].trace = printed[b].trace => printed[a].text = printed[b].text
    /\ stdout = AllText(printed)

C14Theorem ==
    /\ []C14Printed
    /\ [][stdout' # stdout => UNCHANGED <<steps, position, stack, memory, code>>]_vars
    /\ [][printed' # printed =>
            (printed'[Len(printed')].trace = steps' /\ UNCHANGED <<steps, position, stack, memory>>)]_vars

C14Witness ==
    /\ Len(printed) = 2
    /\ printed[1].trace = printed[2].trace
    /\ Len(printed[1].trace) >= 2
    /\ printed[1].trace[1].push_bytes.some
    /\ printed[1].trace[2].stack # <<>>
    /\ stdout = printed[1].text \o printed[1].text

(* C15: a recorded step has the runtime's position as pc when the runtime  *)
(* reports one and 0 otherwise; a debug_step entered where no instruction  *)
(* is decodable (terminated runtime, or position outside the code) does    *)
(* not panic: it appends one INVALID step with no push_bytes and the       *)
(* reversed stack and the memory of the runtime, then makes one runtime    *)
(* step.                                                                   *)
Decodable(e) == e.position.tag = "Ok" /\ e.position.pos < Len(code)

C15Theorem ==
    /\ \A i \in 1..Len(steps) :
          LET e == IF i <= Len(hist) THEN hist[i] ELSE EngineState
          IN /\ e.position.tag = "Ok" => steps[i].pc = e.position.pos
             /\ e.position.tag = "Err" => steps[i].pc = 0
             /\ ~Decodable(e) =>
                   /\ steps[i].op = INVALID
                   /\ steps[i].push_bytes = None
                   /\ steps[i].memory = e.memory
                   /\ Len(steps[i].stack) = Len(e.stack)
                   /\ \A j \in 1..Len(e.stack) : steps[i].stack[j] = e.stack[Len(e.stack) + 1 - j]
    /\ (entry.some /\ ~Decodable(entry.val)) =>
          /\ fatal = "None"
          /\ pc # "panicked"
          /\ Len(steps) = EntryLen + 1
          /\ pc # "step_advance" =>
                (advances = entry.val.advances + 1 /\ hist[advances] = EngineOf(entry.val))

C15Witness ==
    \E i \in 1..Len(hist) : \E k \in 1..Len(hist) :
        /\ steps[i].op = INVALID
        /\ hist[i].position.tag = "Ok"
        /\ steps[i].pc > 0
        /\ steps[k].op = INVALID
        /\ hist[k].position.tag = "Err"
        /\ steps[k].pc = 0
        /\ Len(steps[k].stack) >= 2
        /\ steps[k].stack[1] # steps[k].stack[2]

(* C16 (as claimed): from the same start state and code, debug_run and     *)
(* ForgeRuntime::run make the same runtime steps, leave the runtime in the *)
(* same state and return the same exit.                                    *)
DebugRunEnded == calls = 1 /\ (pc = "returned" \/ (pc = "panicked" /\ inRun))
PlainRunEnded == plain.pc \in {"returned", "panicked"}
NoTrap == lastOut.kind # "Trap" /\ plain.r.kind # "Trap"

SameRun ==
    /\ pc = "returned"
    /\ plain.pc = "returned"
    /\ ret = Some(plain.res)
    /\ hist = plain.hist
    /\ EngineState = EngineOf(plain)

C16Claim == (DebugRunEnded /\ PlainRunEnded /\ NoTrap) => SameRun

(* C16 (amended): the same holds whenever debug_run does not end in its    *)
(* own operand-window panic; when it does, run goes on where debug_run     *)
(* stopped, and up to there the two made the same runtime steps.           *)
FirstRun == (calls = 1 /\ inRun) \/ DebugRunEnded

C16Theorem ==
    /\ (DebugRunEnded /\ PlainRunEnded /\ NoTrap /\ fatal # "OperandOverrun") => SameRun
    /\ (DebugRunEnded /\ PlainRunEnded /\ lastOut.kind = "Trap" /\ plain.r.kind = "Trap"
        /\ Len(hist) = Len(plain.hist)) =>
          (pc = "panicked" /\ plain.pc = "panicked" /\ hist = plain.hist
           /\ EngineState = EngineOf(plain))
    /\ FirstRun =>
          \A i \in 1..Len(hist) : i <= Len(plain.hist) => hist[i] = plain.hist[i]
    /\ (DebugRunEnded /\ PlainRunEnded /\ NoTrap /\ fatal = "OperandOverrun") =>
          (Len(hist) < Len(plain.hist) /\ plain.hist[Len(hist) + 1] = EngineState)

C16Witness ==
    /\ DebugRunEnded
    /\ plain.pc = "returned"
    /\ SameRun
    /\ Len(hist) >= 2
    /\ stack # <<>>
    /\ ret = Some("StackUnderflow")

(* C17: a debug_run whose runtime exits after finitely many steps and that  *)
(* meets no fatal fault returns; it returns only after an exit of this run, *)
(* the runtime is not stepped again in the run once it has exited, and the  *)
(* loop is not left while every step so far has asked to continue.          *)
ExitedInRun == inRun /\ advances > runStart /\ lastOut.kind = "Exit"

C17Theorem ==
    /\ (inRun /\ pc = "run_loop") ~> (pc = "returned" \/ fatal # "None")
    /\ [][(inRun /\ pc' = "returned") => ExitedInRun]_vars
    /\ [][(ExitedInRun /\ inRun') => advances' = advances]_vars
    /\ []((inRun /\ done) => ExitedInRun)

C17Witness ==
    /\ pc = "returned" /\ calls = 1 /\ fatal = "None"
    /\ advances - runStart >= 3 /\ lastOut.kind = "Exit"
    /\ \A i \in 1..Len(steps) : steps[i].op # INVALID

====
